---- MODULE Spec2Model ----
(***************************************************************************)
(* Model of streamlit_app.py: the MQTT ingestion callbacks (on_connect,    *)
(* on_disconnect, on_message), the connection handling (init_mqtt, the     *)
(* "Reconnect MQTT" button) and the render loop that reads the session     *)
(* state while the paho network thread writes it.                          *)
(*                                                                         *)
(* Two threads of control touch the session state:                         *)
(*   - the script thread, which runs the Streamlit script top to bottom    *)
(*     (button handler, init_mqtt, status read, render loop) and is        *)
(*     restarted from the top by a rerun;                                  *)
(*   - the network thread that client.loop_start() creates, on which paho  *)
(*     calls on_connect, on_disconnect and on_message, one at a time.      *)
(* Every statement of on_message that writes the session state is one      *)
(* step, so the script thread can read between any two of them.            *)
(***************************************************************************)
EXTENDS Integers, Sequences, FiniteSets, TLC

VARIABLES
    mqtt_connected,   \* st.session_state.mqtt_connected
    latest_data,      \* st.session_state.latest_data
    history,          \* st.session_state.history (deque, oldest first)
    mqtt_client,      \* st.session_state.mqtt_client (a client id or None)
    data_received,    \* st.session_state.data_received
    thread,           \* per client: its network loop thread is running
    sock,             \* per client: state of its connection to the broker
    cb_pc,            \* per client: position of its network thread in on_message
    cb_msg,           \* per client: the message on_message is handling
    cb_pre,           \* per client: the store when the message in hand was delivered
    now,              \* logical clock of datetime.now(): messages delivered so far
    pc,               \* position of the script thread
    client,           \* init_mqtt's local `client`
    caller,           \* the call site init_mqtt returns to, while it runs
    init_result,      \* module-level mqtt_connected = init_mqtt() (line 209)
    status,           \* the status string computed at line 221
    df,               \* the history snapshot taken at line 331
    attempts          \* outcomes of the connection attempts since the last success

vars == <<mqtt_connected, latest_data, history, mqtt_client, data_received,
          thread, sock, cb_pc, cb_msg, cb_pre, now, pc, client, caller,
          init_result, status, df, attempts>>

session == <<mqtt_connected, latest_data, history, mqtt_client, data_received>>
net     == <<thread, sock, cb_pc, cb_msg, cb_pre>>
script  == <<pc, client, caller, init_result, status, df>>

-----------------------------------------------------------------------------
(* Bounds of the model *)

MaxMsgs == 2      \* messages delivered in Spec
MaxAttempts == 3  \* connection attempts whose outcome is remembered
MaxSeqMsgs == 105 \* messages delivered in SpecHistory
NumClients == 2   \* client objects alive at the same time

(* Program constants *)

maxlen == 100     \* deque(maxlen=100)

\* Python's None where a client object is expected; client objects are 1, 2, ...
None == 0
Sentinel == "--"
Clients == 1..NumClients

-----------------------------------------------------------------------------
(* JSON values.  A JSON object is a function from its keys to its members, *)
(* so that `k in d` is k \in DOMAIN d; any other JSON value is JNum.       *)

JObj(m) == [type |-> "object", members |-> m]
JNum == [type |-> "number", members |-> <<>>]
IsDict(v) == v.type = "object"

\* dict.get(k, dflt)
Get(d, k, dflt) == IF k \in DOMAIN d.members THEN d.members[k] ELSE dflt
\* k in d
In(k, d) == k \in DOMAIN d.members

\* msg.payload: bytes that json.loads rejects, or the JSON value they encode
Malformed == [json |-> "malformed", value |-> JNum]
Json(v) == [json |-> "ok", value |-> v]
NoMsg == [json |-> "none", value |-> JNum]

-----------------------------------------------------------------------------
(* Session state *)

\* st.session_state.latest_data as first created
InitialLatest ==
    [voltage |-> 0, current |-> 0, power |-> 0, frequency |-> 0,
     powerFactor |-> 0, energy |-> 0, dailyKwh |-> 0, dailyCost |-> 0,
     timestamp |-> 0, rssi |-> 0, snr |-> 0,
     devEUI |-> Sentinel, gateway |-> Sentinel]

\* The fields a reader gets from the store
Store ==
    [latest |-> latest_data, history |-> history,
     received |-> data_received, connected |-> mqtt_connected]

\* the store as first created
InitialStore ==
    [latest |-> InitialLatest, history |-> <<>>,
     received |-> FALSE, connected |-> FALSE]

Init ==
    /\ mqtt_connected = FALSE
    /\ latest_data = InitialLatest
    /\ history = <<>>
    /\ mqtt_client = None
    /\ data_received = FALSE
    /\ thread = [c \in Clients |-> FALSE]
    /\ sock = [c \in Clients |-> "closed"]
    /\ cb_pc = [c \in Clients |-> "idle"]
    /\ cb_msg = [c \in Clients |-> NoMsg]
    /\ cb_pre = [c \in Clients |-> InitialStore]
    /\ now = 0
    /\ pc = "l209"
    /\ client = None
    /\ caller = "none"
    /\ init_result = FALSE
    /\ status = "Disconnected"
    /\ df = <<>>
    /\ attempts = <<>>

-----------------------------------------------------------------------------
(* MQTT callbacks, called by paho on the network thread of client c *)

\* an on_connect that does not look at rc
on_connect_any_rc(rc) == mqtt_connected' = TRUE

on_connect(rc) == mqtt_connected' = (rc = 0)

\* an on_disconnect that leaves the flag as it is
on_disconnect_keeps_flag == UNCHANGED mqtt_connected

on_disconnect == mqtt_connected' = FALSE

\* a deque that never evicts
deque_append_unbounded(h, e) == Append(h, e)

\* collections.deque.append on a deque created with maxlen
deque_append(h, e) ==
    IF Len(h) >= maxlen THEN Append(Tail(h), e) ELSE Append(h, e)

\* line 120: rxInfo.get('name', rxInfo.get('gatewayID', '--'))
GatewayOf(rxInfo) == Get(rxInfo, "name", Get(rxInfo, "gatewayID", Sentinel))

\* an update that keeps the previous value of a measurement `object` lacks
UpdateLatest_keepsMissing(ld, obj, t) ==
    [ld EXCEPT !.voltage = Get(obj, "voltage", ld.voltage),
               !.current = Get(obj, "current", ld.current),
               !.power = Get(obj, "power", ld.power),
               !.frequency = Get(obj, "frequency", ld.frequency),
               !.powerFactor = Get(obj, "powerFactor", ld.powerFactor),
               !.energy = Get(obj, "energy", ld.energy),
               !.dailyKwh = Get(obj, "dailyKwh", ld.dailyKwh),
               !.dailyCost = Get(obj, "dailyCost", ld.dailyCost),
               !.timestamp = t]

\* lines 125-135: latest_data.update({...})
UpdateLatest(ld, obj, t) ==
    [ld EXCEPT !.voltage = Get(obj, "voltage", 0),
               !.current = Get(obj, "current", 0),
               !.power = Get(obj, "power", 0),
               !.frequency = Get(obj, "frequency", 0),
               !.powerFactor = Get(obj, "powerFactor", 0),
               !.energy = Get(obj, "energy", 0),
               !.dailyKwh = Get(obj, "dailyKwh", 0),
               !.dailyCost = Get(obj, "dailyCost", 0),
               !.timestamp = t]

\* lines 138-143: the entry appended to history
HistoryEntry(obj, t) ==
    [timestamp |-> t,
     power |-> Get(obj, "power", 0),
     voltage |-> Get(obj, "voltage", 0),
     current |-> Get(obj, "current", 0)]

\* on_message's locals, from the message in hand
Payload(c) == cb_msg[c].value
\* the last element of rxInfo instead of the first
RxInfo_last(c) ==
    Payload(c).members["rxInfo"][Len(Payload(c).members["rxInfo"])]
RxInfo(c) == Payload(c).members["rxInfo"][1]
Obj(c) == Payload(c).members["object"]

\* the network thread moves to position p of on_message
Goto(c, p) == cb_pc' = [cb_pc EXCEPT ![c] = p]

\* line 109: payload = json.loads(msg.payload.decode())
OnMessage_l109(c) ==
    /\ cb_pc[c] = "l109"
    /\ IF cb_msg[c].json = "malformed" THEN Goto(c, "l148") ELSE Goto(c, "l112")
    /\ UNCHANGED <<session, thread, sock, cb_msg, cb_pre, now, script, attempts>>

\* devEUI written as payload.get('devEUI', '--') whether present or not
OnMessage_l112_default(c) ==
    /\ cb_pc[c] = "l112"
    /\ IF ~IsDict(Payload(c))
       THEN Goto(c, "l148") /\ UNCHANGED latest_data
       ELSE /\ Goto(c, "l116")
            /\ latest_data' =
                  [latest_data EXCEPT !.devEUI = Get(Payload(c), "devEUI", Sentinel)]
    /\ UNCHANGED <<mqtt_connected, history, mqtt_client, data_received,
                   thread, sock, cb_msg, cb_pre, now, script, attempts>>

\* lines 112-113: if 'devEUI' in payload: latest_data['devEUI'] = payload['devEUI']
OnMessage_l112(c) ==
    /\ cb_pc[c] = "l112"
    /\ IF ~IsDict(Payload(c))
       THEN Goto(c, "l148") /\ UNCHANGED latest_data
       ELSE /\ Goto(c, "l116")
            /\ IF In("devEUI", Payload(c))
               THEN latest_data' =
                        [latest_data EXCEPT !.devEUI = Payload(c).members["devEUI"]]
               ELSE UNCHANGED latest_data
    /\ UNCHANGED <<mqtt_connected, history, mqtt_client, data_received,
                   thread, sock, cb_msg, cb_pre, now, script, attempts>>

\* lines 116-117: if 'rxInfo' in payload and len(payload['rxInfo']) > 0
OnMessage_l116(c) ==
    /\ cb_pc[c] = "l116"
    /\ IF In("rxInfo", Payload(c)) /\ Len(Payload(c).members["rxInfo"]) > 0
       THEN Goto(c, "l118")
       ELSE Goto(c, "l123")
    /\ UNCHANGED <<session, thread, sock, cb_msg, cb_pre, now, script, attempts>>

\* line 118: latest_data['rssi'] = rxInfo.get('rssi', 0)
OnMessage_l118(c) ==
    /\ cb_pc[c] = "l118"
    /\ IF ~IsDict(RxInfo(c))
       THEN Goto(c, "l148") /\ UNCHANGED latest_data
       ELSE /\ Goto(c, "l119")
            /\ latest_data' = [latest_data EXCEPT !.rssi = Get(RxInfo(c), "rssi", 0)]
    /\ UNCHANGED <<mqtt_connected, history, mqtt_client, data_received,
                   thread, sock, cb_msg, cb_pre, now, script, attempts>>

\* line 119: latest_data['snr'] = rxInfo.get('loRaSNR', 0)
OnMessage_l119(c) ==
    /\ cb_pc[c] = "l119"
    /\ Goto(c, "l120")
    /\ latest_data' = [latest_data EXCEPT !.snr = Get(RxInfo(c), "loRaSNR", 0)]
    /\ UNCHANGED <<mqtt_connected, history, mqtt_client, data_received,
                   thread, sock, cb_msg, cb_pre, now, script, attempts>>

\* line 120: latest_data['gateway'] = rxInfo.get('name', rxInfo.get('gatewayID', '--'))
OnMessage_l120(c) ==
    /\ cb_pc[c] = "l120"
    /\ Goto(c, "l123")
    /\ latest_data' = [latest_data EXCEPT !.gateway = GatewayOf(RxInfo(c))]
    /\ UNCHANGED <<mqtt_connected, history, mqtt_client, data_received,
                   thread, sock, cb_msg, cb_pre, now, script, attempts>>

\* line 123: if 'object' in payload
OnMessage_l123(c) ==
    /\ cb_pc[c] = "l123"
    /\ IF In("object", Payload(c)) THEN Goto(c, "l125") ELSE Goto(c, "return")
    /\ UNCHANGED <<session, thread, sock, cb_msg, cb_pre, now, script, attempts>>

\* lines 124-135: obj = payload['object']; latest_data.update({...})
OnMessage_l125(c) ==
    /\ cb_pc[c] = "l125"
    /\ IF ~IsDict(Obj(c))
       THEN Goto(c, "l148") /\ UNCHANGED latest_data
       ELSE /\ Goto(c, "l138")
            /\ latest_data' = UpdateLatest(latest_data, Obj(c), now)
    /\ UNCHANGED <<mqtt_connected, history, mqtt_client, data_received,
                   thread, sock, cb_msg, cb_pre, now, script, attempts>>

\* an append seen through a snapshot that is the deque itself, not a copy
OnMessage_l138_aliased(c) ==
    /\ cb_pc[c] = "l138"
    /\ Goto(c, "l145")
    /\ history' = deque_append(history, HistoryEntry(Obj(c), now))
    /\ df' = history'
    /\ UNCHANGED <<mqtt_connected, latest_data, mqtt_client, data_received,
                   thread, sock, cb_msg, cb_pre, now,
                   pc, client, caller, init_result, status, attempts>>

\* lines 138-143: history.append({...})
OnMessage_l138(c) ==
    /\ cb_pc[c] = "l138"
    /\ Goto(c, "l145")
    /\ history' = deque_append(history, HistoryEntry(Obj(c), now))
    /\ UNCHANGED <<mqtt_connected, latest_data, mqtt_client, data_received,
                   thread, sock, cb_msg, cb_pre, now, script, attempts>>

\* line 145: data_received = True
OnMessage_l145(c) ==
    /\ cb_pc[c] = "l145"
    /\ Goto(c, "return")
    /\ data_received' = TRUE
    /\ UNCHANGED <<mqtt_connected, latest_data, history, mqtt_client,
                   thread, sock, cb_msg, cb_pre, now, script, attempts>>

\* lines 147-148: except Exception: print(...); on_message returns
OnMessage_l148(c) ==
    /\ cb_pc[c] = "l148"
    /\ Goto(c, "idle")
    /\ cb_msg' = [cb_msg EXCEPT ![c] = NoMsg]
    /\ cb_pre' = [cb_pre EXCEPT ![c] = InitialStore]
    /\ UNCHANGED <<session, thread, sock, now, script, attempts>>

\* on_message returns without an exception
OnMessage_return(c) ==
    /\ cb_pc[c] = "return"
    /\ Goto(c, "idle")
    /\ cb_msg' = [cb_msg EXCEPT ![c] = NoMsg]
    /\ cb_pre' = [cb_pre EXCEPT ![c] = InitialStore]
    /\ UNCHANGED <<session, thread, sock, now, script, attempts>>

on_message(c) ==
    \/ OnMessage_l109(c)
    \/ OnMessage_l112(c)
    \/ OnMessage_l116(c)
    \/ OnMessage_l118(c)
    \/ OnMessage_l119(c)
    \/ OnMessage_l120(c)
    \/ OnMessage_l123(c)
    \/ OnMessage_l125(c)
    \/ OnMessage_l138(c)
    \/ OnMessage_l145(c)
    \/ OnMessage_l148(c)
    \/ OnMessage_return(c)

-----------------------------------------------------------------------------
(* The network thread of client c, started by client.loop_start() (line    *)
(* 164).  It calls one callback at a time, and only while it is running.   *)

\* attempts with one more outcome: the log starts afresh after a success,
\* and forgets its oldest entry beyond MaxAttempts
Remember(outcome) ==
    LET log == IF attempts # <<>> /\ attempts[Len(attempts)] = "connected"
               THEN <<>>
               ELSE attempts
    IN  IF Len(log) >= MaxAttempts
        THEN Append(Tail(log), outcome)
        ELSE Append(log, outcome)

NetIdle(c) == thread[c] /\ cb_pc[c] = "idle"
SockOpen(c) == sock[c] \in {"pending", "up", "refused"}

\* The broker answers the CONNECT: paho calls on_connect(rc)
NetConnack(c, rc) ==
    /\ NetIdle(c)
    /\ sock[c] = "pending"
    /\ on_connect(rc)
    /\ sock' = [sock EXCEPT ![c] = IF rc = 0 THEN "up" ELSE "refused"]
    /\ attempts' = Remember(IF rc = 0 THEN "connected" ELSE "failed")
    /\ UNCHANGED <<latest_data, history, mqtt_client, data_received,
                   thread, cb_pc, cb_msg, cb_pre, now, script>>

\* The connection is lost: paho calls on_disconnect
NetDisconnect(c) ==
    /\ NetIdle(c)
    /\ SockOpen(c)
    /\ on_disconnect
    /\ sock' = [sock EXCEPT ![c] = "closed"]
    /\ UNCHANGED <<latest_data, history, mqtt_client, data_received,
                   thread, cb_pc, cb_msg, cb_pre, now, script, attempts>>

\* The loop that loop_start() runs (paho's loop_forever) opens the connection
\* again after it was lost or refused
NetReconnect(c) ==
    /\ NetIdle(c)
    /\ sock[c] = "closed"
    /\ sock' = [sock EXCEPT ![c] = "pending"]
    /\ UNCHANGED <<session, thread, cb_pc, cb_msg, cb_pre, now, script, attempts>>

\* A message on the subscribed topic arrives: paho calls on_message(msg)
NetMessage(c, m) ==
    /\ NetIdle(c)
    /\ sock[c] = "up"
    /\ cb_pc' = [cb_pc EXCEPT ![c] = "l109"]
    /\ cb_msg' = [cb_msg EXCEPT ![c] = m]
    /\ cb_pre' = [cb_pre EXCEPT ![c] = Store]
    /\ now' = now + 1
    /\ UNCHANGED <<session, thread, sock, script, attempts>>

-----------------------------------------------------------------------------
(* The script thread *)

\* Streamlit reruns the script from the top; a rerun interrupts the script at
\* an st.* call, and `pressed` says whether "Reconnect MQTT" caused it
Interruptible == {"l217", "l239", "l255", "l327", "l401"}

Rerun(pressed) ==
    /\ pc \in Interruptible
    /\ pc' = IF pressed THEN "l186" ELSE "l209"
    /\ UNCHANGED <<session, net, now, client, caller, init_result, status, df, attempts>>

\* the button handler without loop_stop(): the network thread keeps running
Reconnect_l187_no_stop ==
    /\ pc = "l186"
    /\ mqtt_client # None
    /\ pc' = "l188"
    /\ UNCHANGED <<session, net, now, client, caller, init_result, status, df,
                   attempts>>

\* lines 186-187: if mqtt_client: mqtt_client.loop_stop(), which joins the
\* network thread and so waits for the callback it is running
Reconnect_l187 ==
    /\ pc = "l186"
    /\ mqtt_client # None
    /\ cb_pc[mqtt_client] = "idle"
    /\ thread' = [thread EXCEPT ![mqtt_client] = FALSE]
    /\ pc' = "l188"
    /\ UNCHANGED <<session, sock, cb_pc, cb_msg, cb_pre, now,
                   client, caller, init_result, status, df, attempts>>

\* line 186 with no client in the session: nothing to stop
Reconnect_skip ==
    /\ pc = "l186"
    /\ mqtt_client = None
    /\ pc' = "l190"
    /\ UNCHANGED <<session, net, now, client, caller, init_result, status, df, attempts>>

\* a disconnect() that closes the connection and calls nothing
disconnect_silent(c) ==
    /\ sock' = [sock EXCEPT ![c] = "closed"]
    /\ UNCHANGED mqtt_connected

\* client.disconnect() with the loop stopped: paho writes DISCONNECT on the
\* calling thread and calls on_disconnect there, when the socket is open
disconnect(c) ==
    IF SockOpen(c)
    THEN on_disconnect /\ sock' = [sock EXCEPT ![c] = "closed"]
    ELSE UNCHANGED <<mqtt_connected, sock>>

\* line 188: mqtt_client.disconnect()
Reconnect_l188 ==
    /\ pc = "l188"
    /\ disconnect(mqtt_client)
    /\ pc' = "l189"
    /\ UNCHANGED <<latest_data, history, mqtt_client, data_received,
                   thread, cb_pc, cb_msg, cb_pre, now,
                   client, caller, init_result, status, df, attempts>>

\* a handler that also empties the store when it drops the client
Reconnect_l189_clears ==
    /\ pc = "l189"
    /\ mqtt_client' = None
    /\ history' = <<>>
    /\ data_received' = FALSE
    /\ pc' = "l190"
    /\ UNCHANGED <<mqtt_connected, latest_data,
                   net, now, client, caller, init_result, status, df, attempts>>

\* line 189: mqtt_client = None
Reconnect_l189 ==
    /\ pc = "l189"
    /\ mqtt_client' = None
    /\ pc' = "l190"
    /\ UNCHANGED <<mqtt_connected, latest_data, history, data_received,
                   net, now, client, caller, init_result, status, df, attempts>>

\* where init_mqtt returns to
After(site) == IF site = "l190" THEN "l209" ELSE "l217"

\* line 209 assigns the result, line 190 drops it
Result(site, r) == IF site = "l209" THEN r ELSE init_result

\* mqtt.Client(): a client object nothing refers to any more can be reused
FreeClients == {c \in Clients : ~thread[c] /\ mqtt_client # c}
NewClient == CHOOSE c \in FreeClients : \A d \in FreeClients : c <= d

\* an init_mqtt without the `is None` test: a new client at every call
InitMqtt_always_creates ==
    /\ pc \in {"l190", "l209"}
    /\ mqtt_client # None
    /\ FreeClients # {}
    /\ client' = NewClient
    /\ sock' = [sock EXCEPT ![NewClient] = "closed"]
    /\ caller' = pc
    /\ pc' = "l163"
    /\ UNCHANGED <<session, thread, cb_pc, cb_msg, cb_pre, now,
                   init_result, status, df, attempts>>

\* lines 152, 170: init_mqtt() with a client in the session returns True
InitMqtt_present ==
    /\ pc \in {"l190", "l209"}
    /\ mqtt_client # None
    /\ init_result' = Result(pc, TRUE)
    /\ pc' = After(pc)
    /\ UNCHANGED <<session, net, now, client, caller, status, df, attempts>>

\* lines 152-160: client = mqtt.Client() and its callbacks
InitMqtt_l153 ==
    /\ pc \in {"l190", "l209"}
    /\ mqtt_client = None
    /\ FreeClients # {}
    /\ client' = NewClient
    /\ sock' = [sock EXCEPT ![NewClient] = "closed"]
    /\ caller' = pc
    /\ pc' = "l163"
    /\ UNCHANGED <<session, thread, cb_pc, cb_msg, cb_pre, now,
                   init_result, status, df, attempts>>

\* line 163: client.connect() opens the connection and sends CONNECT
InitMqtt_l163_ok ==
    /\ pc = "l163"
    /\ sock' = [sock EXCEPT ![client] = "pending"]
    /\ pc' = "l164"
    /\ UNCHANGED <<session, thread, cb_pc, cb_msg, cb_pre, now,
                   client, caller, init_result, status, df, attempts>>

\* a failure path that stores the client in the session before it returns
InitMqtt_l163_fail_registers ==
    /\ pc = "l163"
    /\ mqtt_client' = client
    /\ client' = None
    /\ init_result' = Result(caller, FALSE)
    /\ attempts' = Remember("failed")
    /\ pc' = After(caller)
    /\ caller' = "none"
    /\ UNCHANGED <<mqtt_connected, latest_data, history, data_received,
                   net, now, status, df>>

\* lines 163, 167-169: client.connect() raises; st.error, return False
InitMqtt_l163_fail ==
    /\ pc = "l163"
    /\ client' = None
    /\ init_result' = Result(caller, FALSE)
    /\ attempts' = Remember("failed")
    /\ pc' = After(caller)
    /\ caller' = "none"
    /\ UNCHANGED <<session, net, now, status, df>>

\* line 164: client.loop_start()
InitMqtt_l164 ==
    /\ pc = "l164"
    /\ thread' = [thread EXCEPT ![client] = TRUE]
    /\ pc' = "l165"
    /\ UNCHANGED <<session, sock, cb_pc, cb_msg, cb_pre, now,
                   client, caller, init_result, status, df, attempts>>

\* lines 165-166: st.session_state.mqtt_client = client; return True
InitMqtt_l165 ==
    /\ pc = "l165"
    /\ mqtt_client' = client
    /\ client' = None
    /\ init_result' = Result(caller, TRUE)
    /\ pc' = After(caller)
    /\ caller' = "none"
    /\ UNCHANGED <<mqtt_connected, latest_data, history, data_received,
                   net, now, status, df, attempts>>

init_mqtt ==
    \/ InitMqtt_present
    \/ InitMqtt_l153
    \/ InitMqtt_l163_ok
    \/ InitMqtt_l163_fail
    \/ InitMqtt_l164
    \/ InitMqtt_l165

\* lines 217-222: the status bar reads mqtt_connected
Render_l217 ==
    /\ pc = "l217"
    /\ status' = IF mqtt_connected THEN "Connected" ELSE "Disconnected"
    /\ pc' = "l239"
    /\ UNCHANGED <<session, net, now, client, caller, init_result, df, attempts>>

\* line 239: if not data_received: the waiting notice, else the metrics
Render_l239 ==
    /\ pc = "l239"
    /\ pc' = IF data_received THEN "l255" ELSE "l327"
    /\ UNCHANGED <<session, net, now, client, caller, init_result, status, df, attempts>>

\* lines 250-323: the metrics read latest_data
Render_l255 ==
    /\ pc = "l255"
    /\ pc' = "l327"
    /\ UNCHANGED <<session, net, now, client, caller, init_result, status, df, attempts>>

\* lines 327-331: if len(history) > 0: df = pd.DataFrame(list(history))
Render_l327 ==
    /\ pc = "l327"
    /\ df' = IF Len(history) > 0 THEN history ELSE df
    /\ pc' = "l401"
    /\ UNCHANGED <<session, net, now, client, caller, init_result, status, attempts>>

\* line 401: time.sleep(refresh_rate), then the next pass of `while True`
Render_l401 ==
    /\ pc = "l401"
    /\ pc' = "l239"
    /\ UNCHANGED <<session, net, now, client, caller, init_result, status, df, attempts>>

render ==
    \/ Render_l217
    \/ Render_l239
    \/ Render_l255
    \/ Render_l327
    \/ Render_l401

reconnect_button ==
    \/ Reconnect_l187
    \/ Reconnect_skip
    \/ Reconnect_l188
    \/ Reconnect_l189

-----------------------------------------------------------------------------
(* Messages the broker may deliver *)

\* elements of rxInfo
gwFull == JObj([rssi |-> -70, loRaSNR |-> 9, name |-> "gw1", gatewayID |-> "id1"])
gwOther == JObj([rssi |-> -99, loRaSNR |-> -3, name |-> "gw9", gatewayID |-> "id9"])
gwIdOnly == JObj([gatewayID |-> "id2"])
gwEmpty == JObj(<<>>)

\* `object` maps; v tells one message's measurements from another's
ObjFull(v) ==
    JObj([voltage |-> 10 + v, current |-> 20 + v, power |-> 30 + v,
          frequency |-> 40 + v, powerFactor |-> 50 + v, energy |-> 60 + v,
          dailyKwh |-> 70 + v, dailyCost |-> 80 + v])
ObjVCP(v) == JObj([voltage |-> 10 + v, current |-> 20 + v, power |-> 30 + v])
ObjEmpty == JObj(<<>>)

\* a payload that is a JSON object with the given members
Msg(members) == Json(JObj(members))

Payloads ==
    { Malformed,
      Json(JNum),
      Msg([devEUI |-> "d1", rxInfo |-> <<gwFull, gwOther>>, object |-> ObjFull(1)]),
      Msg([object |-> ObjVCP(2)]),
      Msg([devEUI |-> "d2", rxInfo |-> <<gwIdOnly>>]),
      Msg([rxInfo |-> <<>>, object |-> ObjEmpty]),
      Msg([rxInfo |-> <<gwIdOnly>>, object |-> ObjVCP(1)]),
      Msg([devEUI |-> "d2", rxInfo |-> <<JNum>>, object |-> ObjFull(2)]),
      Msg([rxInfo |-> <<gwEmpty>>, object |-> JNum]) }

\* CONNACK return codes: accepted, refused
ReturnCodes == {0, 5}

-----------------------------------------------------------------------------
(* The whole program *)

Next ==
    \/ \E c \in Clients : on_message(c)
    \/ \E c \in Clients, rc \in ReturnCodes : NetConnack(c, rc)
    \/ \E c \in Clients : NetDisconnect(c)
    \/ \E c \in Clients : NetReconnect(c)
    \/ \E c \in Clients, m \in Payloads : now < MaxMsgs /\ NetMessage(c, m)
    \/ \E pressed \in BOOLEAN : Rerun(pressed)
    \/ reconnect_button
    \/ init_mqtt
    \/ render

Spec == Init /\ [][Next]_vars

-----------------------------------------------------------------------------
(* One session that connects and then receives MaxSeqMsgs valid messages,  *)
(* the k-th carrying measurements that name k; every second one also has   *)
(* devEUI and rxInfo.                                                      *)

SeqMsg(k) ==
    IF k % 2 = 0
    THEN Msg([devEUI |-> "d1", rxInfo |-> <<gwFull>>, object |-> ObjFull(k)])
    ELSE Msg([object |-> ObjVCP(k)])

NextHistory ==
    \/ InitMqtt_l153
    \/ InitMqtt_l163_ok
    \/ InitMqtt_l164
    \/ InitMqtt_l165
    \/ \E c \in Clients : NetConnack(c, 0)
    \/ \E c \in Clients : now < MaxSeqMsgs /\ NetMessage(c, SeqMsg(now + 1))
    \/ \E c \in Clients :
          \/ OnMessage_l109(c)
          \/ OnMessage_l112(c)
          \/ OnMessage_l116(c)
          \/ OnMessage_l118(c)
          \/ OnMessage_l119(c)
          \/ OnMessage_l120(c)
          \/ OnMessage_l123(c)
          \/ OnMessage_l125(c)
          \/ OnMessage_l138(c)
          \/ OnMessage_l145(c)
          \/ OnMessage_return(c)

SpecHistory == Init /\ [][NextHistory]_vars

\* messages whose entry has been appended: all delivered ones, but for the
\* one on_message has in hand and has not appended yet
BeforeAppend ==
    {"l109", "l112", "l116", "l118", "l119", "l120", "l123", "l125", "l138"}
Ingested == IF \E c \in Clients : cb_pc[c] \in BeforeAppend THEN now - 1 ELSE now

\* the history entry of the k-th message of SpecHistory
EntryOfSeqMsg(k) ==
    [timestamp |-> k, power |-> 30 + k, voltage |-> 10 + k, current |-> 20 + k]

Min(a, b) == IF a <= b THEN a ELSE b

\* C3: history never holds more than maxlen entries, and after n ingested
\* messages it holds the last min(n, maxlen) of them, oldest first.
C3_HistoryIsLastN ==
    /\ Len(history) <= maxlen
    /\ Len(history) = Min(Ingested, maxlen)
    /\ \A i \in 1..Len(history) :
          history[i] = EntryOfSeqMsg(Ingested - Len(history) + i)

\* 105 messages ingested: 100 entries, the oldest from the 6th message
C3_Witness ==
    /\ now = 105
    /\ \A c \in Clients : cb_pc[c] = "idle"
    /\ Len(history) = 100
    /\ history[1].timestamp = 6
    /\ history[100].timestamp = 105

-----------------------------------------------------------------------------
(* Properties of the store while on_message runs *)

Last(h) == h[Len(h)]

\* the render loop is at one of its reads of data_received, latest_data
\* and history
Reading == pc \in {"l239", "l255", "l327"}

\* C1: in every state in which the script thread reads the store, latest is
\* the newest entry of history: both come from the same message (same
\* receipt time, same voltage, current and power), and before any sample is
\* stored latest is the initial one.
C1_LatestIsNewestOfHistory ==
    Reading =>
    IF history = <<>>
    THEN /\ latest_data.timestamp = InitialLatest.timestamp
         /\ latest_data.voltage = InitialLatest.voltage
         /\ latest_data.current = InitialLatest.current
         /\ latest_data.power = InitialLatest.power
    ELSE /\ latest_data.timestamp = Last(history).timestamp
         /\ latest_data.voltage = Last(history).voltage
         /\ latest_data.current = Last(history).current
         /\ latest_data.power = Last(history).power

\* C2: in every state in which the script thread reads the store,
\* data_received implies that history is non-empty and latest holds a
\* received sample, and a non-empty history implies data_received.
C2_FlagAgreesWithData ==
    Reading =>
    /\ data_received =>
          /\ history # <<>>
          /\ latest_data.timestamp > InitialLatest.timestamp
    /\ history # <<>> => data_received

\* C4: when on_message ends in its except branch, every field of the store
\* is what it was when the message was delivered.
C4_ErrorLeavesStoreUnchanged ==
    \A c \in Clients : cb_pc[c] = "l148" => Store = cb_pre[c]

\* the message on_message(c) is handling decoded to a JSON object
DecodedObject(c) == cb_msg[c].json = "ok" /\ IsDict(Payload(c))

\* C5: every message that decodes to a JSON object has, when on_message
\* returns, replaced latest, appended exactly one entry to history and set
\* data_received; latest never changes without the append and the flag.
C5_DecodedMessageIsIngestedWhole ==
    \A c \in Clients :
        (cb_pc[c] = "return" /\ DecodedObject(c)) =>
            /\ latest_data.timestamp = now
            /\ Len(history) = Len(cb_pre[c].history) + 1
            /\ Last(history).timestamp = now
            /\ data_received

-----------------------------------------------------------------------------
(* What a decoded message leaves in latest *)

Electrical ==
    {"voltage", "current", "power", "frequency",
     "powerFactor", "energy", "dailyKwh", "dailyCost"}

\* the message in hand is a JSON object whose `object` is a map
HasObjectMap(c) ==
    /\ DecodedObject(c)
    /\ In("object", Payload(c))
    /\ IsDict(Obj(c))

\* the message in hand has a first rxInfo element
HasRxElement(c) ==
    /\ In("rxInfo", Payload(c))
    /\ Len(Payload(c).members["rxInfo"]) > 0

\* that element, when there is one, is a JSON object
RxWellFormed(c) == HasRxElement(c) => IsDict(RxInfo(c))

\* the message in hand carries key k in its first rxInfo element
CarriesRx(c, k) == HasRxElement(c) /\ IsDict(RxInfo(c)) /\ In(k, RxInfo(c))

NoIdentity(c) ==
    /\ HasObjectMap(c)
    /\ ~In("devEUI", Payload(c))
    /\ ~HasRxElement(c)

\* C7: a message with an `object` map, no devEUI and no (or an empty)
\* rxInfo is ingested without error, sets the electrical fields of latest
\* from `object` and leaves devEUI and gateway as they were; as the first
\* message it leaves devEUI and gateway at "--" and rssi at 0.
C7_IdentityKept ==
    \A c \in Clients :
        NoIdentity(c) =>
            /\ cb_pc[c] # "l148"
            /\ cb_pc[c] = "return" =>
                  /\ \A f \in Electrical : latest_data[f] = Get(Obj(c), f, 0)
                  /\ latest_data.devEUI = cb_pre[c].latest.devEUI
                  /\ latest_data.gateway = cb_pre[c].latest.gateway
                  /\ now = 1 =>
                        /\ latest_data.devEUI = Sentinel
                        /\ latest_data.gateway = Sentinel
                        /\ latest_data.rssi = 0

\* such a message has been ingested after one that had set devEUI and gateway
C7_Witness ==
    \E c \in Clients :
        /\ cb_pc[c] = "return"
        /\ NoIdentity(c)
        /\ cb_pre[c].latest.devEUI = "d1"
        /\ cb_pre[c].latest.gateway = "gw1"
        /\ latest_data.voltage # cb_pre[c].latest.voltage

-----------------------------------------------------------------------------
(* Connection status *)

\* the status the page shows (lines 181, 221)
ObservedStatus == IF mqtt_connected THEN "Connected" ELSE "Disconnected"

LastAttemptFailed == attempts # <<>> /\ Last(attempts) = "failed"

\* a connection attempt is under way: init_mqtt is connecting, or a network
\* thread waits for the broker's answer
Attempting ==
    \/ pc \in {"l163", "l164"}
    \/ \E c \in Clients : thread[c] /\ sock[c] = "pending"

C9_DisconnectIsIdempotent ==
    [][ /\ pc' \in {"l189", "l190"} => ~mqtt_connected'
        /\ (pc = "l186" /\ mqtt_client = None) =>
              /\ Store' = Store
              /\ mqtt_client' = None
              /\ pc' = "l190" ]_vars

\* the disconnect half has run on a session the page had shown as Connected
C9_Witness ==
    /\ pc = "l189"
    /\ status = "Connected"
    /\ attempts # <<>>
    /\ Last(attempts) = "connected"
    /\ sock[mqtt_client] = "closed"
    /\ ~mqtt_connected

\* c is no session any more (or none yet): it is neither the client in the
\* session nor the one init_mqtt is setting up, or its disconnect() is done
Old(c) ==
    /\ ~(client = c /\ pc \in {"l163", "l164", "l165"})
    /\ mqtt_client # c \/ pc = "l189"

\* C10: once disconnect() of a session is done its network thread is
\* stopped and no callback of it starts: its callback position and its
\* connection no longer change, and whatever changes the store afterwards
\* is a session whose thread is running.
C10_NoCallbackAfterDisconnect ==
    [][ \A c \in Clients :
          Old(c) =>
              /\ ~thread[c]
              /\ cb_pc[c] = "idle"
              /\ cb_pc'[c] = "idle"
              /\ sock'[c] = sock[c]
              /\ Store' # Store =>
                    \/ \E d \in Clients : d # c /\ thread[d]
                    \/ pc = "l188" ]_vars

\* a session that had ingested messages has been disconnected
C10_Witness ==
    /\ pc = "l190"
    /\ mqtt_client = None
    /\ data_received
    /\ history # <<>>
    /\ status = "Connected"

-----------------------------------------------------------------------------
(* Loss of the connection *)

\* in this step the network thread of c finds its connection lost and calls
\* on_disconnect
TransportDisconnect(c) == thread[c] /\ SockOpen(c) /\ sock'[c] = "closed"

\* in this step a broker accepts the CONNECT of some client
ConnectAccepted == \E c \in Clients : sock[c] = "pending" /\ sock'[c] = "up"

\* in this step the status bar reads the flag (line 221)
StatusRead == pc = "l217" /\ pc' = "l239"

\* C11: a disconnection found by the network thread sets the status to
\* Disconnected and leaves latest, history and data_received unchanged; the
\* status then stays Disconnected until a broker accepts a connection, and
\* every status read made meanwhile shows Disconnected.
C11_UnexpectedDisconnectShown ==
    [][ /\ \A c \in Clients :
              TransportDisconnect(c) =>
                  /\ ~mqtt_connected'
                  /\ latest_data' = latest_data
                  /\ history' = history
                  /\ data_received' = data_received
        /\ (~mqtt_connected /\ ~ConnectAccepted) => ~mqtt_connected'
        /\ (StatusRead /\ ~mqtt_connected) => status' = "Disconnected" ]_vars

\* a session that was shown as Connected and had ingested a message lost its
\* connection, and the next status read showed Disconnected
C11_Witness ==
    /\ mqtt_client # None
    /\ thread[mqtt_client]
    /\ sock[mqtt_client] = "closed"
    /\ ~mqtt_connected
    /\ attempts # <<>> /\ Last(attempts) = "connected"
    /\ data_received
    /\ history # <<>>
    /\ pc = "l239"
    /\ status = "Disconnected"

-----------------------------------------------------------------------------
(* Failed connection attempts *)

\* in this step client.connect() raises and init_mqtt returns False
ConnectRaises == pc = "l163" /\ pc' \notin {"l163", "l164"}

\* in this step a broker refuses the CONNECT of some client
ConnectRefused == \E c \in Clients : sock[c] = "pending" /\ sock'[c] = "refused"

\* in this step the script thread leaves a call site of init_mqtt
InitMqttCalled == pc \in {"l190", "l209"} /\ pc' # pc

\* C12: a connection attempt that fails, by connect() raising or by the
\* broker refusing, leaves latest, history and data_received unchanged; a
\* connect() that raised leaves no client in the session, so the next
\* init_mqtt makes a new attempt, and so does every press of the Reconnect
\* button, whatever failed before; an attempt the broker accepts sets the
\* status to Connected.
C12_FailedConnectAllowsRetry ==
    [][ /\ (ConnectRaises \/ ConnectRefused) =>
              /\ latest_data' = latest_data
              /\ history' = history
              /\ data_received' = data_received
              /\ ~mqtt_connected'
        /\ ConnectRaises => (mqtt_client' = None /\ \A c \in Clients : ~thread'[c])
        /\ (InitMqttCalled /\ (pc = "l190" \/ mqtt_client = None)) =>
              /\ pc' = "l163"
              /\ client' \in Clients
              /\ ~thread[client']
        /\ ConnectAccepted => mqtt_connected' ]_vars

\* after two failed attempts a retry was accepted, and the first message of
\* the store has been ingested over that connection
C12_Witness ==
    /\ attempts = <<"failed", "failed", "connected">>
    /\ mqtt_connected
    /\ mqtt_client # None
    /\ sock[mqtt_client] = "up"
    /\ cb_pc[mqtt_client] = "return"
    /\ cb_pre[mqtt_client].history = <<>>
    /\ data_received
    /\ Last(history).timestamp = now

-----------------------------------------------------------------------------
(* What init_mqtt reports *)

\* in this step init_mqtt returns True: from line 166 after loop_start(), or
\* from line 170 with a client already in the session
ReturnsTrue ==
    /\ pc' # pc
    /\ \/ pc = "l165"
       \/ pc \in {"l190", "l209"} /\ mqtt_client # None

\* C13: whenever init_mqtt returns True the status is Connected at that
\* moment: the status was written before success is reported.
C13_SuccessMeansConnected ==
    [][ ReturnsTrue => mqtt_connected' ]_vars

-----------------------------------------------------------------------------
(* Who starts a connection attempt *)

\* in this step a connection attempt of client c starts
AttemptStarts(c) == sock[c] # "pending" /\ sock'[c] = "pending"

\* the attempt of c is the client.connect() of init_mqtt (line 163)
ByInitMqtt(c) == pc = "l163" /\ client = c /\ pc' = "l164"

\* the attempt of c is made by the network loop of the session init_mqtt
\* started, after that session's connection was lost or refused
ByNetworkLoop(c) ==
    /\ thread[c]
    /\ sock[c] = "closed"
    /\ mqtt_client = c \/ client = c

-----------------------------------------------------------------------------
(* One session, one writer *)

\* the clients whose network loop is running
Running == {c \in Clients : thread[c]}

\* the clients whose network thread is inside on_message
InOnMessage == {c \in Clients : cb_pc[c] # "idle"}

\* C15: at most one client has its network loop running, and it is the one
\* in the session (or the one init_mqtt is about to store); at most one
\* on_message is in progress, on that loop, so the store has one writer.
C15_SingleSession ==
    /\ Cardinality(Running) <= 1
    /\ Cardinality(InOnMessage) <= 1
    /\ InOnMessage \subseteq Running
    /\ \A c \in Running : mqtt_client = c \/ (client = c /\ pc = "l165")
    /\ pc \in {"l188", "l189", "l190", "l163", "l164"} => Running = {}

\* after a failed attempt and an accepted retry the one running session is
\* about to append a reading, while history holds an earlier one
C15_Witness ==
    /\ attempts = <<"failed", "connected">>
    /\ status = "Connected"
    /\ history # <<>>
    /\ Running = {mqtt_client}
    /\ cb_pc[mqtt_client] = "l138"
    /\ cb_pre[mqtt_client].history = history

-----------------------------------------------------------------------------
(* Before the first reading *)

\* no reading has been stored yet
NothingIngested == history = <<>>

\* init_mqtt reported success to this script run and the session's
\* connection is open: its CONNECT is sent or has been accepted
ReportedConnectionOpen ==
    /\ init_result
    /\ mqtt_client # None
    /\ sock[mqtt_client] \in {"pending", "up"}

\* C16: while no reading has been stored data_received is False, whatever
\* happened to the connection, and a status read shows the outcome of the
\* last attempt: Disconnected after a failed one, Connected after one that
\* init_mqtt reported as made, while that connection is open.
C16_StatusReflectsLastAttempt ==
    [][ NothingIngested =>
          /\ ~data_received
          /\ StatusRead =>
                /\ LastAttemptFailed => status' = "Disconnected"
                /\ ReportedConnectionOpen => status' = "Connected" ]_vars

-----------------------------------------------------------------------------
(* The history snapshot of the render loop.  SpecSnapshot is SpecHistory    *)
(* with the script thread going on to the status bar and the render loop,  *)
(* so that snapshots are taken while readings are appended and evicted.    *)

NextSnapshot ==
    \/ NextHistory
    \/ render

SpecSnapshot == Init /\ [][NextSnapshot]_vars

\* in this step the render loop copies history (line 331)
SnapshotTaken == pc = "l327" /\ pc' = "l401" /\ Len(history) > 0

\* s holds consecutive readings of SpecSnapshot's messages, oldest first
Consecutive(s) ==
    \A i \in 1..Len(s) : s[i] = EntryOfSeqMsg(s[1].timestamp + i - 1)

\* C17: the snapshot is history as it was when it was taken, in insertion
\* order, and nothing but the next snapshot changes it: what on_message
\* appends to or evicts from history afterwards leaves its length and its
\* contents as they were.
C17_SnapshotIsIsolated ==
    [][ /\ SnapshotTaken => df' = history
        /\ ~SnapshotTaken => df' = df
        /\ Len(df') <= maxlen
        /\ Consecutive(df') ]_vars

\* a full snapshot still holds readings that history has evicted since
C17_Witness ==
    /\ Len(df) = maxlen
    /\ Len(history) = maxlen
    /\ df[1].timestamp = 1
    /\ history[1].timestamp = 6
    /\ df[maxlen] = EntryOfSeqMsg(maxlen)

-----------------------------------------------------------------------------
(* What rxInfo leaves in latest *)

\* on_message is past line 120 and has raised nothing
PastRxInfo(c) == cb_pc[c] \in {"l123", "l125", "l138", "l145", "return"}

\* the rxInfo array of the message in hand
RxArray(c) == Payload(c).members["rxInfo"]

\* the message in hand has a non-empty rxInfo whose first element is a JSON
\* object
FirstIsObject(c) ==
    /\ DecodedObject(c)
    /\ In("rxInfo", Payload(c))
    /\ Len(RxArray(c)) > 0
    /\ IsDict(RxArray(c)[1])

\* C18: once on_message has handled a non-empty rxInfo, rssi and snr of
\* latest are the rssi and loRaSNR of its first element (0 where it has
\* none) and gateway is that element's name, else its gatewayID, else "--";
\* no later element of the array has any part in it.
C18_FirstRxInfoOnly ==
    \A c \in Clients :
        (PastRxInfo(c) /\ FirstIsObject(c)) =>
            LET first == RxArray(c)[1].members
            IN  /\ latest_data.rssi =
                      IF "rssi" \in DOMAIN first THEN first["rssi"] ELSE 0
                /\ latest_data.snr =
                      IF "loRaSNR" \in DOMAIN first THEN first["loRaSNR"] ELSE 0
                /\ latest_data.gateway =
                      IF "name" \in DOMAIN first THEN first["name"]
                      ELSE IF "gatewayID" \in DOMAIN first THEN first["gatewayID"]
                      ELSE Sentinel

\* a message with two rxInfo elements has been ingested over values an
\* earlier message had stored: latest holds those of the first element
C18_Witness ==
    \E c \in Clients :
        /\ cb_pc[c] = "return"
        /\ FirstIsObject(c)
        /\ Len(RxArray(c)) = 2
        /\ RxArray(c)[2] # RxArray(c)[1]
        /\ cb_pre[c].latest.gateway = "id2"
        /\ latest_data.gateway = "gw1"
        /\ latest_data.rssi = -70
        /\ latest_data.snr = 9

-----------------------------------------------------------------------------
(* Telemetry outlives the connection *)

\* C19: no step of the program, whether a message, a decode error, a
\* disconnection, a failed attempt, a reconnect or a rerun, sets
\* data_received back to False or makes history shorter.
C19_TelemetryIsKept ==
    [][ /\ data_received => data_received'
        /\ Len(history') >= Len(history) ]_vars

\* two readings were stored, then the connection ended and the attempt that
\* followed failed: the render loop still has both readings
C19_Witness ==
    /\ data_received
    /\ Len(history) = 2
    /\ attempts = <<"failed">>
    /\ ~mqtt_connected
    /\ pc = "l327"
    /\ status = "Disconnected"

====
